---------------------------- MODULE Spec2Model ----------------------------
(***************************************************************************)
(* Client-side network layer of galavox: the useGameServer hook            *)
(* (connection manager and wire codec), the zustand gameServerStore and    *)
(* the position throttle of the Character component.                       *)
(*                                                                         *)
(* The browser WebSocket is the environment.  Its rules, as used below:    *)
(*   - a new socket is CONNECTING; the open event moves it to OPEN;        *)
(*   - close() on a CONNECTING or OPEN socket moves it to CLOSING at once  *)
(*     and is ignored on a CLOSING or CLOSED socket;                       *)
(*   - when the connection is gone the socket becomes CLOSED and, in one   *)
(*     task, the error event (only when the connection failed) and then    *)
(*     the close event are dispatched; a socket closed before it opened    *)
(*     always counts as failed;                                            *)
(*   - message events are dispatched only while the socket is OPEN;        *)
(*   - the reads of two Blobs (arrayBuffer()) settle in either order.      *)
(* React drops a state update made after the component has unmounted.      *)
(*                                                                         *)
(* Three specifications share the variables:                               *)
(*   Spec         the connection lifecycle and direct sendPosition calls   *)
(*   SpecFrames   inbound frames on top of the lifecycle                   *)
(*   SpecThrottle the Character's per-frame throttle over one connection   *)
(* Frame handling writes gameState and error only, the throttle writes its *)
(* own refs and the send log only, so each specification is the program    *)
(* with the other inputs absent.                                           *)
(***************************************************************************)
EXTENDS Integers, Sequences, FiniteSets, TLC

(* ------------------------------ bounds -------------------------------- *)
\* sockets the manager may create in one behaviour
MaxSockets == 3
\* sockets the manager may create in one behaviour of SpecFrames
FrameSockets == 2
\* binary frames the server delivers in one behaviour
MaxFrames == 2
\* position messages handed to the transport in one behaviour
MaxSends == 2
\* largest coordinate of the scene grid, in hundredths of a world unit
MaxCoord == 1
\* granularity of the clock, in milliseconds
Quantum == 50
\* clock quanta that elapse in one behaviour of SpecThrottle
MaxQuanta == 4

(* ------------------------- program constants -------------------------- *)
\* threshold = 0.01 world units, in hundredths
Threshold == 1
\* now - lastSentTime.current > 100 (milliseconds)
MinInterval == 100

Sockets == 1..MaxSockets

\* the null reference (wsRef.current = null, a connect() that returns null)
NoSocket == 0

\* the null of the error string
NoError == "null"

\* the null of the published GameState
NoGameState == [isNull |-> TRUE]

\* the throttle has not called sendPosition yet
NoCall == [t |-> -1, p |-> <<0, 0, 0>>]

\* Date.now() when the Character mounts: later than MinInterval after the epoch
ClockStart == 3 * Quantum

VARIABLES
  urlOk,        \* whether new WebSocket(url) accepts the hook's url
  nanKept,      \* whether the engine's setFloat32 writes the bits a NaN was read
                \* with (quieted) or the canonical quiet NaN: ECMAScript leaves the
                \* encoding of NaN to the implementation
  phase,        \* "init" | "mounted" | "unmounted": the hook's effect
  mountSocket,  \* the socket captured by the effect's cleanup closure
  readyState,   \* socket -> "NONE" (not created) | CONNECTING | OPEN | CLOSING | CLOSED
  opened,       \* socket -> whether its open event has been dispatched
  closeReq,     \* socket -> whether close() has been called on it
  evq,          \* socket whose close event is still to be dispatched in the running task
  wsRef,        \* wsRef.current
  isConnecting, \* isConnectingRef.current
  isConnected,  \* the hook's isConnected state
  error,        \* the hook's error state
  gameState,    \* the hook's gameState state
  frames,       \* the binary frames delivered so far, in arrival order: [sock, buf]
  pending,      \* arrival numbers of the frames whose Blob read has not settled
  pubLog,       \* arrival numbers of the frames published, in publication order
  sent,         \* what was handed to socket.send, in order: <<socket, bytes>>
  sendResult,   \* outcome of the latest sendPosition call: "none" | "written" | "dropped"
  store_gameState,   \* the store's gameState
  store_isConnected, \* the store's isConnected
  store_error,       \* the store's error
  store_wsRef,       \* the store's _wsRef
  store_connectFn,   \* whether the store's _connectFn is set
  store_reconnectResult,  \* how the latest call of the store's reconnect() ended
  variant,      \* "context" | "store": which Character build is mounted
  keys,         \* the Character's keys state: [w, s]
  pos,          \* groupRef.current.position, in hundredths
  clock,        \* Date.now() at the latest frame, in milliseconds
  lastSentTime,      \* lastSentTime.current
  lastSentPosition,  \* lastSentPosition.current
  invoked,      \* whether the latest frame called sendPosition
  lastCall      \* time and position of the throttle's latest sendPosition call

connVars == <<urlOk, nanKept, phase, mountSocket, readyState, opened, closeReq, evq,
              wsRef, isConnecting, isConnected, error>>
frameVars == <<gameState, frames, pending, pubLog>>
sendVars == <<sent, sendResult>>
storeVars == <<store_gameState, store_isConnected, store_error, store_wsRef,
               store_connectFn, store_reconnectResult>>
throttleVars ==
  <<variant, keys, pos, clock, lastSentTime, lastSentPosition, invoked, lastCall>>
vars == <<connVars, frameVars, sendVars, storeVars, throttleVars>>

(* ------------------------------ wire codec ---------------------------- *)
\* A byte buffer is a sequence of 0..255; offsets are 0-based as in DataView.

\* A JavaScript number of the model is one of
\*   [kind |-> "f32", b |-> <<b0,b1,b2,b3>>]  the float with that little-endian pattern
\*   [kind |-> "nan", b |-> <<b0,b1,b2,b3>>]  NaN, with the quiet pattern the engine's
\*                                            double may still hold (no script sees it)
\*   [kind |-> "cent", n |-> k]               the double k/100 (positions of the scene)
\* The conversion of a float NaN to a double sets the quiet bit and keeps the rest.
NaN(b) == [kind |-> "nan", b |-> <<b[1], b[2], 192 + (b[3] % 64), b[4]>>]

IsNaNPattern(b) ==
  /\ b[4] % 128 = 127
  /\ b[3] >= 128
  /\ (b[3] % 128 # 0 \/ b[2] # 0 \/ b[1] # 0)

\* DataView.getFloat32(offset, true): the number the four bytes denote
F32Value(b) == IF IsNaNPattern(b) THEN NaN(b) ELSE [kind |-> "f32", b |-> b]

\* Math.fround of k/100 as its little-endian bytes (IEEE-754 round to nearest)
CentF32 ==
  (0 :> <<0, 0, 0, 0>>) @@ (1 :> <<10, 215, 35, 60>>) @@ (2 :> <<10, 215, 163, 60>>) @@
  (3 :> <<143, 194, 245, 60>>) @@ (4 :> <<10, 215, 35, 61>>) @@
  (150 :> <<0, 0, 192, 63>>) @@ (-225 :> <<0, 0, 16, 192>>)

\* DataView.setFloat32(offset, v, true): the four bytes written for number v
F32Bytes(v) ==
  CASE v.kind = "f32" -> v.b
    [] v.kind = "nan" -> IF nanKept THEN v.b ELSE <<0, 0, 192, 127>>
    [] v.kind = "cent" -> CentF32[v.n]

\* an encoder that writes each float most significant byte first
encodePosition_BigEndian(x, y, z) ==
  LET rev(b) == <<b[4], b[3], b[2], b[1]>> IN
  rev(F32Bytes(x)) \o rev(F32Bytes(y)) \o rev(F32Bytes(z))

\* the 12-byte buffer sendPosition builds
encodePosition(x, y, z) == F32Bytes(x) \o F32Bytes(y) \o F32Bytes(z)

RECURSIVE LittleEndian(_, _, _)
LittleEndian(buf, off, n) ==
  IF n = 0 THEN 0 ELSE buf[off + 1] + 256 * LittleEndian(buf, off + 1, n - 1)

\* A read cursor of the decoder: whether no read has thrown, the offset, and the
\* values read so far, latest last
Cursor(off, out) == [ok |-> TRUE, off |-> off, out |-> out]

\* a reader of 32-bit floats that yields 0 at the end of the buffer
readF32_ZeroFill(buf, c) ==
  IF c.ok
  THEN IF c.off + 4 <= Len(buf)
       THEN Cursor(c.off + 4, Append(c.out, F32Value(SubSeq(buf, c.off + 1, c.off + 4))))
       ELSE Cursor(c.off + 4, Append(c.out, F32Value(<<0, 0, 0, 0>>)))
  ELSE [ok |-> FALSE, off |-> 0, out |-> <<>>]

\* a read that threw (RangeError of the DataView or of the Uint8Array view); the
\* bounds are tested before any byte is read
Thrown == [ok |-> FALSE, off |-> 0, out |-> <<>>]

\* the cursor with its n latest values replaced by the one value v
Reduce(c, n, v) == Cursor(c.off, Append(SubSeq(c.out, 1, Len(c.out) - n), v))

\* the k-th latest value of the cursor (k = 0: the latest)
Top(c, k) == c.out[Len(c.out) - k]

readU64(buf, c) ==
  IF c.ok /\ c.off + 8 <= Len(buf)
  THEN Cursor(c.off + 8, Append(c.out, LittleEndian(buf, c.off, 8)))
  ELSE Thrown

readU32(buf, c) ==
  IF c.ok /\ c.off + 4 <= Len(buf)
  THEN Cursor(c.off + 4, Append(c.out, LittleEndian(buf, c.off, 4)))
  ELSE Thrown

readU8(buf, c) ==
  IF c.ok /\ c.off + 1 <= Len(buf)
  THEN Cursor(c.off + 1, Append(c.out, buf[c.off + 1]))
  ELSE Thrown

readF32(buf, c) ==
  IF c.ok /\ c.off + 4 <= Len(buf)
  THEN Cursor(c.off + 4, Append(c.out, F32Value(SubSeq(buf, c.off + 1, c.off + 4))))
  ELSE Thrown

\* TextDecoder().decode(bytes): utf-8, not fatal, BOM stripped.  The result is
\* the sequence of code points; 65533 (U+FFFD) replaces each malformed sequence.
RECURSIVE Utf8Run(_, _, _, _, _, _, _, _)
Utf8Run(bytes, i, need, seen, cp, lo, hi, out) ==
  IF i > Len(bytes)
  THEN IF need # 0 THEN Append(out, 65533) ELSE out
  ELSE IF need = 0
  THEN CASE bytes[i] <= 127 ->
              Utf8Run(bytes, i + 1, 0, 0, 0, 128, 191, Append(out, bytes[i]))
         [] bytes[i] >= 194 /\ bytes[i] <= 223 ->
              Utf8Run(bytes, i + 1, 1, 0, bytes[i] % 32, 128, 191, out)
         [] bytes[i] >= 224 /\ bytes[i] <= 239 ->
              Utf8Run(bytes, i + 1, 2, 0, bytes[i] % 16,
                      IF bytes[i] = 224 THEN 160 ELSE 128,
                      IF bytes[i] = 237 THEN 159 ELSE 191, out)
         [] bytes[i] >= 240 /\ bytes[i] <= 244 ->
              Utf8Run(bytes, i + 1, 3, 0, bytes[i] % 8,
                      IF bytes[i] = 240 THEN 144 ELSE 128,
                      IF bytes[i] = 244 THEN 143 ELSE 191, out)
         [] OTHER -> Utf8Run(bytes, i + 1, 0, 0, 0, 128, 191, Append(out, 65533))
  ELSE IF bytes[i] < lo \/ bytes[i] > hi
  THEN Utf8Run(bytes, i, 0, 0, 0, 128, 191, Append(out, 65533))
  ELSE IF seen + 1 = need
  THEN Utf8Run(bytes, i + 1, 0, 0, 0, 128, 191,
               Append(out, (cp * 64) + (bytes[i] % 64)))
  ELSE Utf8Run(bytes, i + 1, need, seen + 1, (cp * 64) + (bytes[i] % 64), 128, 191, out)

\* the code points with a leading U+FEFF dropped
StripBOM(cps) == IF Len(cps) > 0 /\ cps[1] = 65279 THEN Tail(cps) ELSE cps

TextDecode(bytes) == StripBOM(Utf8Run(bytes, 1, 0, 0, 0, 128, 191, <<>>))

\* the name of len bytes at the cursor, len being the cursor's latest value
StringBody(buf, c) ==
  IF c.ok /\ c.off + Top(c, 0) <= Len(buf)
  THEN Cursor(c.off + Top(c, 0),
              Append(SubSeq(c.out, 1, Len(c.out) - 1),
                     TextDecode(SubSeq(buf, c.off + 1, c.off + Top(c, 0)))))
  ELSE Thrown

readString(buf, c) == StringBody(buf, readU64(buf, c))

\* the object built from the three latest values x, y, z
PositionOf(c) ==
  IF c.ok THEN Reduce(c, 3, [x |-> Top(c, 2), y |-> Top(c, 1), z |-> Top(c, 0)])
  ELSE Thrown

readPosition(buf, c) == PositionOf(readF32(buf, readF32(buf, readF32(buf, c))))

\* a color built with its channels in b, g, r order
ColorOf_BGR(c) ==
  IF c.ok THEN Reduce(c, 3, [r |-> Top(c, 0), g |-> Top(c, 1), b |-> Top(c, 2)])
  ELSE Thrown

ColorOf(c) ==
  IF c.ok THEN Reduce(c, 3, [r |-> Top(c, 2), g |-> Top(c, 1), b |-> Top(c, 0)])
  ELSE Thrown

readColor(buf, c) == ColorOf(readU8(buf, readU8(buf, readU8(buf, c))))

PlanetOf(c) ==
  IF c.ok
  THEN Reduce(c, 6, [size |-> Top(c, 5),
                     colors |-> <<Top(c, 4), Top(c, 3), Top(c, 2)>>,
                     module_type |-> Top(c, 1), position |-> Top(c, 0)])
  ELSE Thrown

readPlanet(buf, c) ==
  PlanetOf(readPosition(buf, readU8(buf,
    readColor(buf, readColor(buf, readColor(buf, readF32(buf, c)))))))

PlayerOf(c) ==
  IF c.ok
  THEN Reduce(c, 4, [id |-> Top(c, 3), name |-> Top(c, 2), level |-> Top(c, 1),
                     position |-> Top(c, 0)])
  ELSE Thrown

readPlayer(buf, c) ==
  PlayerOf(readPosition(buf, readU32(buf, readString(buf, readU32(buf, c)))))

\* for (let i = 0; i < planetCount; i++) planets.push(readPlanet())
RECURSIVE readPlanets(_, _, _, _)
readPlanets(buf, c, count, i) ==
  IF ~c.ok THEN Thrown
  ELSE IF i >= count THEN Reduce(c, count, SubSeq(c.out, Len(c.out) - count + 1, Len(c.out)))
  ELSE readPlanets(buf, readPlanet(buf, c), count, i + 1)

\* for (let i = 0; i < playerCount; i++) players.push(readPlayer())
RECURSIVE readPlayers(_, _, _, _)
readPlayers(buf, c, count, i) ==
  IF ~c.ok THEN Thrown
  ELSE IF i >= count THEN Reduce(c, count, SubSeq(c.out, Len(c.out) - count + 1, Len(c.out)))
  ELSE readPlayers(buf, readPlayer(buf, c), count, i + 1)

\* the planets array, planetCount being the cursor's latest value
PlanetsBody(buf, c) ==
  IF c.ok THEN readPlanets(buf, Reduce(c, 1, "planets"), Top(c, 0), 0) ELSE Thrown

\* the players array, playerCount being the cursor's latest value
PlayersBody(buf, c) ==
  IF c.ok THEN readPlayers(buf, Reduce(c, 1, "players"), Top(c, 0), 0) ELSE Thrown

\* the GameState object built from the values read
GameStateOf(c) ==
  IF c.ok
  THEN [ok |-> TRUE,
        v |-> [planets |-> Top(c, 3), players |-> Top(c, 1),
               initial_player_location |-> Top(c, 0)]]
  ELSE [ok |-> FALSE, err |-> "RangeError"]

\* decodeBincodeGameState: [ok |-> TRUE, v |-> the GameState], or
\* [ok |-> FALSE, err |-> the class of the exception] when a read threw; the
\* DataView reads and the Uint8Array constructor throw RangeError, nothing else
\* in the decoder throws
decodeBincodeGameState(buf) ==
  GameStateOf(readPosition(buf, PlayersBody(buf, readU64(buf,
    PlanetsBody(buf, readU64(buf, Cursor(0, <<>>)))))))

(* ------------------------- inbound test buffers ----------------------- *)
U64Bytes(n) == <<n, 0, 0, 0, 0, 0, 0, 0>>
FiveFiveFive == <<0, 0, 160, 64, 0, 0, 160, 64, 0, 0, 160, 64>>

\* no planets, no players, initial_player_location (5,5,5)
FrameEmpty == U64Bytes(0) \o U64Bytes(0) \o FiveFiveFive

\* Planet(size 10.0, colors (0,0,255) (0,255,0) (128,128,128), module_type 2,
\* position (1,2,3)), no players, initial_player_location (5,5,5)
FramePlanet ==
  U64Bytes(1) \o <<0, 0, 32, 65>> \o <<0, 0, 255, 0, 255, 0, 128, 128, 128>> \o <<2>>
  \o <<0, 0, 128, 63, 0, 0, 0, 64, 0, 0, 64, 64>> \o U64Bytes(0) \o FiveFiveFive

\* FramePlanet cut in the middle of its planet record
FrameTruncated == SubSeq(FramePlanet, 1, 20)

Buffers == {FrameEmpty, FramePlanet, FrameTruncated}

\* the player record (id, name bytes, level, position (1,2,3)) with the declared
\* name length len
PlayerBytes(id, len, name, level) ==
  <<id, 0, 0, 0>> \o U64Bytes(len) \o name \o <<level, 0, 0, 0>>
  \o <<0, 0, 128, 63, 0, 0, 0, 64, 0, 0, 64, 64>>

\* no planets, Player(id 7, name "Al", level 3, position (1,2,3)),
\* initial_player_location (5,5,5)
FramePlayer ==
  U64Bytes(0) \o U64Bytes(1) \o PlayerBytes(7, 2, <<65, 108>>, 3) \o FiveFiveFive

\* FramePlayer with the name bytes FF 41, of which FF is no UTF-8
FrameBadName ==
  U64Bytes(0) \o U64Bytes(1) \o PlayerBytes(7, 2, <<255, 65>>, 3) \o FiveFiveFive

\* FrameEmpty declaring one planet it does not carry
FrameOvercount == U64Bytes(1) \o U64Bytes(0) \o FiveFiveFive

\* FramePlayer declaring a name of 200 bytes
FrameLongName ==
  U64Bytes(0) \o U64Bytes(1) \o PlayerBytes(7, 200, <<65, 108>>, 3) \o FiveFiveFive

\* two planets, the first FramePlanet's, the second of size 2.0, colors (1,2,3)
\* (4,5,6) (7,8,9), module_type 1, position (5,5,5); two players, "Al" and one
\* with the empty name; initial_player_location (1,2,3)
FrameTwoTwo ==
  U64Bytes(2)
  \o <<0, 0, 32, 65>> \o <<0, 0, 255, 0, 255, 0, 128, 128, 128>> \o <<2>>
  \o <<0, 0, 128, 63, 0, 0, 0, 64, 0, 0, 64, 64>>
  \o <<0, 0, 0, 64>> \o <<1, 2, 3, 4, 5, 6, 7, 8, 9>> \o <<1>> \o FiveFiveFive
  \o U64Bytes(2) \o PlayerBytes(7, 2, <<65, 108>>, 3) \o PlayerBytes(9, 0, <<>>, 1)
  \o <<0, 0, 128, 63, 0, 0, 0, 64, 0, 0, 64, 64>>

\* frames that carry exactly the bytes their counts and lengths declare
WellFormed == {FrameEmpty, FramePlanet, FramePlayer, FrameBadName, FrameTwoTwo}

\* the proper prefixes of buffer b
Prefixes(b) == {SubSeq(b, 1, k) : k \in 0..(Len(b) - 1)}

\* buffers shorter than their counts and lengths declare
ShortBuffers ==
  UNION {Prefixes(b) : b \in WellFormed} \cup {FrameOvercount, FrameLongName}

\* 32-bit patterns of every class of float: zero, 1.5, negative zero, the
\* smallest denormal, both infinities, the canonical quiet NaN, a quiet NaN with
\* a payload and a signalling NaN
F32Patterns ==
  {<<0, 0, 0, 0>>, <<0, 0, 192, 63>>, <<0, 0, 0, 128>>, <<1, 0, 0, 0>>,
   <<0, 0, 128, 127>>, <<0, 0, 128, 255>>, <<0, 0, 192, 127>>, <<1, 0, 192, 127>>,
   <<1, 0, 128, 127>>}

\* the 12 bytes of a Position made of these patterns
PositionPatterns == {a \o b \o c : a \in F32Patterns, b \in F32Patterns, c \in F32Patterns}

\* no planets, no players, initial_player_location with the bytes p
LocationFrame(p) == U64Bytes(0) \o U64Bytes(0) \o p
LocationFrames == {LocationFrame(p) : p \in PositionPatterns}

\* the buffers the codec is exercised on
CodecBuffers == WellFormed \cup ShortBuffers \cup LocationFrames

\* what decodeBincodeGameState makes of each of these buffers
Decoded == [buf \in Buffers \cup CodecBuffers |-> decodeBincodeGameState(buf)]

\* the number k/100
Cent(k) == [kind |-> "cent", n |-> k]

\* the position samples handed to sendPosition by a direct caller
Samples == {<<Cent(150), Cent(-225), Cent(0)>>}

(* -------------------------- connection manager ------------------------ *)
Live(rs, s) == rs[s] \in {"CONNECTING", "OPEN"}

\* WebSocket.close()
Close(rs, s) == IF Live(rs, s) THEN [rs EXCEPT ![s] = "CLOSING"] ELSE rs

\* the socket object new WebSocket(url) returns: the lowest unused one
NewSocket(rs) ==
  CHOOSE s \in Sockets : rs[s] = "NONE" /\ \A t \in Sockets : t < s => rs[t] # "NONE"

\* React drops a state update of an unmounted component
SetState(old, new) == IF phase = "unmounted" THEN old ELSE new

\* a connect() whose catch branch leaves the connecting guard set
connect_KeepsGuard(rs, ws, ic, err) ==
  IF ic \/ (ws # NoSocket /\ rs[ws] = "OPEN")
  THEN [rs |-> rs, ws |-> ws, ic |-> ic, err |-> err, ret |-> ws]
  ELSE IF urlOk
       THEN LET socket == NewSocket(rs) IN
            [rs |-> [rs EXCEPT ![socket] = "CONNECTING"], ws |-> socket,
             ic |-> TRUE, err |-> err, ret |-> socket]
       ELSE [rs |-> rs, ws |-> ws, ic |-> TRUE,
             err |-> SetState(err, "Failed to construct 'WebSocket'"), ret |-> NoSocket]

\* connect(), from the refs rs/ws/ic and error string err it finds, to the
\* values it leaves and the handle it returns.  The 100 ms spin of lines 23-28
\* changes no state; the time it takes is part of the time between two frames.
connect(rs, ws, ic, err) ==
  IF ic \/ (ws # NoSocket /\ rs[ws] = "OPEN")
  THEN [rs |-> rs, ws |-> ws, ic |-> ic, err |-> err, ret |-> ws]
  ELSE IF urlOk
       THEN LET socket == NewSocket(rs) IN
            [rs |-> [rs EXCEPT ![socket] = "CONNECTING"], ws |-> socket,
             ic |-> TRUE, err |-> err, ret |-> socket]
       ELSE [rs |-> rs, ws |-> ws, ic |-> FALSE,
             err |-> SetState(err, "Failed to construct 'WebSocket'"), ret |-> NoSocket]

\* connect() can run within the bound on sockets
HasRoom(rs, ws, ic) ==
  \/ ic \/ (ws # NoSocket /\ rs[ws] = "OPEN")
  \/ ~urlOk
  \/ \E s \in Sockets : rs[s] = "NONE"

\* an onopen that leaves the error string as it finds it
onopen_KeepsError(s) ==
  /\ isConnected' = SetState(isConnected, TRUE)
  /\ isConnecting' = FALSE
  /\ UNCHANGED <<error, wsRef>>

\* an onopen that leaves the connecting guard as it finds it
onopen_KeepsGuard(s) ==
  /\ isConnected' = SetState(isConnected, TRUE)
  /\ error' = SetState(error, NoError)
  /\ UNCHANGED <<isConnecting, wsRef>>

\* socket.onopen
onopen(s) ==
  /\ isConnected' = SetState(isConnected, TRUE)
  /\ error' = SetState(error, NoError)
  /\ isConnecting' = FALSE
  /\ UNCHANGED wsRef

\* an onerror that leaves the connecting guard as it finds it
onerror_KeepsGuard(s) ==
  /\ error' = SetState(error, "WebSocket connection error")
  /\ isConnected' = SetState(isConnected, FALSE)
  /\ UNCHANGED <<isConnecting, wsRef>>

\* socket.onerror
onerror(s) ==
  /\ error' = SetState(error, "WebSocket connection error")
  /\ isConnected' = SetState(isConnected, FALSE)
  /\ isConnecting' = FALSE
  /\ UNCHANGED wsRef

\* an onclose that keeps the handle of the closed socket
onclose_KeepsHandle(s) ==
  /\ isConnected' = SetState(isConnected, FALSE)
  /\ isConnecting' = FALSE
  /\ UNCHANGED <<wsRef, error>>

\* socket.onclose
onclose(s) ==
  /\ isConnected' = SetState(isConnected, FALSE)
  /\ isConnecting' = FALSE
  /\ wsRef' = NoSocket
  /\ UNCHANGED error

\* sendPosition without the readyState test: writes whenever a handle exists
sendPosition_AnyReadyState(ws, rs, log, x, y, z) ==
  IF ws # NoSocket
  THEN Append(log, <<ws, encodePosition(x, y, z)>>)
  ELSE log

\* the hook's sendPosition: the log of socket.send calls it leaves
sendPosition(ws, rs, log, x, y, z) ==
  IF ws # NoSocket /\ rs[ws] = "OPEN"
  THEN Append(log, <<ws, encodePosition(x, y, z)>>)
  ELSE log

\* the store's sendPosition, on the store's _wsRef
storeSendPosition(ws, rs, log, x, y, z) ==
  IF ws # NoSocket /\ rs[ws] = "OPEN"
  THEN Append(log, <<ws, encodePosition(x, y, z)>>)
  ELSE log

\* a store reconnect() that calls _connectFn without testing it: calling null
\* raises a TypeError
storeReconnect_Unchecked(fn) == IF fn THEN "called" ELSE "threw"

\* the store's reconnect(): calls _connectFn when one is registered, returns
\* without doing anything otherwise
storeReconnect(fn) == IF fn THEN "called" ELSE "skipped"

InitBase ==
  /\ phase = "init"
  /\ mountSocket = NoSocket
  /\ readyState = [s \in Sockets |-> "NONE"]
  /\ opened = [s \in Sockets |-> FALSE]
  /\ closeReq = [s \in Sockets |-> FALSE]
  /\ evq = NoSocket
  /\ wsRef = NoSocket
  /\ isConnecting = FALSE
  /\ isConnected = FALSE
  /\ error = NoError
  /\ gameState = NoGameState
  /\ frames = <<>>
  /\ pending = {}
  /\ pubLog = <<>>
  /\ sent = <<>>
  /\ sendResult = "none"
  /\ store_gameState = NoGameState
  /\ store_isConnected = FALSE
  /\ store_error = NoError
  /\ store_wsRef = NoSocket
  /\ store_connectFn = FALSE
  /\ store_reconnectResult = "none"
  /\ keys = [w |-> FALSE, s |-> FALSE]
  /\ pos = <<0, 0, 0>>
  /\ clock = ClockStart
  /\ lastSentTime = 0
  /\ lastSentPosition = <<0, 0, 0>>
  /\ invoked = FALSE
  /\ lastCall = NoCall

Init == InitBase /\ urlOk \in BOOLEAN /\ nanKept = FALSE /\ variant = "context"

\* useEffect(() => { const socket = connect(); ... }, [])
Mount ==
  /\ phase = "init"
  /\ LET r == connect(readyState, wsRef, isConnecting, error) IN
     /\ readyState' = r.rs
     /\ wsRef' = r.ws
     /\ isConnecting' = r.ic
     /\ error' = r.err
     /\ mountSocket' = r.ret
  /\ phase' = "mounted"
  /\ UNCHANGED <<urlOk, nanKept, opened, closeReq, evq, isConnected>>
  /\ UNCHANGED <<frameVars, sendVars, storeVars, throttleVars>>

\* a call of the connect callback
ConnectCall ==
  /\ phase = "mounted"
  /\ evq = NoSocket
  /\ HasRoom(readyState, wsRef, isConnecting)
  /\ LET r == connect(readyState, wsRef, isConnecting, error) IN
     /\ readyState' = r.rs
     /\ wsRef' = r.ws
     /\ isConnecting' = r.ic
     /\ error' = r.err
  /\ UNCHANGED <<urlOk, nanKept, phase, mountSocket, opened, closeReq, evq, isConnected>>
  /\ UNCHANGED <<frameVars, sendVars, storeVars, throttleVars>>

\* reconnect()
Reconnect ==
  /\ phase = "mounted"
  /\ evq = NoSocket
  /\ LET rs1 == IF wsRef # NoSocket THEN Close(readyState, wsRef) ELSE readyState
         r == connect(rs1, wsRef, FALSE, error)
     IN /\ HasRoom(rs1, wsRef, FALSE)
        /\ closeReq' = IF wsRef # NoSocket THEN [closeReq EXCEPT ![wsRef] = TRUE]
                       ELSE closeReq
        /\ readyState' = r.rs
        /\ wsRef' = r.ws
        /\ isConnecting' = r.ic
        /\ error' = r.err
  /\ UNCHANGED <<urlOk, nanKept, phase, mountSocket, opened, evq, isConnected>>
  /\ UNCHANGED <<frameVars, sendVars, storeVars, throttleVars>>

\* the cleanup of the effect
Teardown ==
  /\ phase = "mounted"
  /\ evq = NoSocket
  /\ IF mountSocket # NoSocket /\ readyState[mountSocket] = "OPEN"
     THEN /\ readyState' = Close(readyState, mountSocket)
          /\ closeReq' = [closeReq EXCEPT ![mountSocket] = TRUE]
     ELSE UNCHANGED <<readyState, closeReq>>
  /\ wsRef' = NoSocket
  /\ isConnecting' = FALSE
  /\ phase' = "unmounted"
  /\ UNCHANGED <<urlOk, nanKept, mountSocket, opened, evq, isConnected, error>>
  /\ UNCHANGED <<frameVars, sendVars, storeVars, throttleVars>>

\* the open event of socket s
TransportOpen(s) ==
  /\ evq = NoSocket
  /\ readyState[s] = "CONNECTING"
  /\ readyState' = [readyState EXCEPT ![s] = "OPEN"]
  /\ opened' = [opened EXCEPT ![s] = TRUE]
  /\ onopen(s)
  /\ UNCHANGED <<urlOk, nanKept, phase, mountSocket, closeReq, evq>>
  /\ UNCHANGED <<frameVars, sendVars, storeVars, throttleVars>>

\* the connection of socket s fails: the error event, its close event to follow
TransportError(s) ==
  /\ evq = NoSocket
  /\ readyState[s] \in {"CONNECTING", "OPEN", "CLOSING"}
  /\ readyState' = [readyState EXCEPT ![s] = "CLOSED"]
  /\ onerror(s)
  /\ evq' = s
  /\ UNCHANGED <<urlOk, nanKept, phase, mountSocket, opened, closeReq>>
  /\ UNCHANGED <<frameVars, sendVars, storeVars, throttleVars>>

\* the close event that follows an error event in the same task
DispatchClose ==
  /\ evq # NoSocket
  /\ onclose(evq)
  /\ evq' = NoSocket
  /\ UNCHANGED <<urlOk, nanKept, phase, mountSocket, readyState, opened, closeReq>>
  /\ UNCHANGED <<frameVars, sendVars, storeVars, throttleVars>>

\* the connection of socket s closes cleanly: the close event alone
TransportClose(s) ==
  /\ evq = NoSocket
  /\ readyState[s] \in {"OPEN", "CLOSING"}
  /\ opened[s]
  /\ readyState' = [readyState EXCEPT ![s] = "CLOSED"]
  /\ onclose(s)
  /\ UNCHANGED <<urlOk, nanKept, phase, mountSocket, opened, closeReq, evq>>
  /\ UNCHANGED <<frameVars, sendVars, storeVars, throttleVars>>

\* a call of the hook's sendPosition
SendPositionCall(p) ==
  /\ phase = "mounted"
  /\ evq = NoSocket
  /\ LET log == sendPosition(wsRef, readyState, sent, p[1], p[2], p[3]) IN
     /\ Len(log) <= MaxSends
     /\ sent' = log
     /\ sendResult' = IF log = sent THEN "dropped" ELSE "written"
  /\ UNCHANGED <<connVars, frameVars, storeVars, throttleVars>>

\* a call of the store's sendPosition
StoreSendPositionCall(p) ==
  /\ phase = "mounted"
  /\ evq = NoSocket
  /\ LET log == storeSendPosition(store_wsRef, readyState, sent, p[1], p[2], p[3]) IN
     /\ Len(log) <= MaxSends
     /\ sent' = log
     /\ sendResult' = IF log = sent THEN "dropped" ELSE "written"
  /\ UNCHANGED <<connVars, frameVars, storeVars, throttleVars>>

\* a call of the store's reconnect(); a registered _connectFn would be the
\* hook's connect, but nothing in the program registers one
StoreReconnectCall ==
  /\ phase = "mounted"
  /\ evq = NoSocket
  /\ store_reconnectResult' = storeReconnect(store_connectFn)
  /\ IF storeReconnect(store_connectFn) = "called"
     THEN /\ HasRoom(readyState, wsRef, isConnecting)
          /\ LET r == connect(readyState, wsRef, isConnecting, error) IN
             /\ readyState' = r.rs
             /\ wsRef' = r.ws
             /\ isConnecting' = r.ic
             /\ error' = r.err
     ELSE UNCHANGED <<readyState, wsRef, isConnecting, error>>
  /\ UNCHANGED <<urlOk, nanKept, phase, mountSocket, opened, closeReq, evq, isConnected>>
  /\ UNCHANGED <<store_gameState, store_isConnected, store_error, store_wsRef,
                 store_connectFn>>
  /\ UNCHANGED <<frameVars, sendVars, throttleVars>>

Next ==
  \/ Mount
  \/ ConnectCall
  \/ Reconnect
  \/ Teardown
  \/ \E s \in Sockets : TransportOpen(s)
  \/ \E s \in Sockets : TransportError(s)
  \/ DispatchClose
  \/ \E s \in Sockets : TransportClose(s)
  \/ \E p \in Samples : SendPositionCall(p)
  \/ \E p \in Samples : StoreSendPositionCall(p)
  \/ StoreReconnectCall

Spec == Init /\ [][Next]_vars

(* ---------------------------- inbound frames -------------------------- *)
\* an onmessage that publishes the text of a string message as the error
TextMessage_PublishesText(s) ==
  /\ evq = NoSocket
  /\ readyState[s] = "OPEN"
  /\ error' = SetState(error, "Server")
  /\ UNCHANGED <<urlOk, nanKept, phase, mountSocket, readyState, opened, closeReq, evq,
                 wsRef, isConnecting, isConnected>>
  /\ UNCHANGED <<frameVars, sendVars, storeVars, throttleVars>>

\* socket.onmessage with a string: logged only
TextMessage(s) ==
  /\ evq = NoSocket
  /\ readyState[s] = "OPEN"
  /\ UNCHANGED vars

\* socket.onmessage with a Blob: the read of its bytes starts
BinaryMessage(s, buf) ==
  /\ evq = NoSocket
  /\ readyState[s] = "OPEN"
  /\ Len(frames) < MaxFrames
  /\ frames' = Append(frames, [sock |-> s, buf |-> buf])
  /\ pending' = pending \cup {Len(frames) + 1}
  /\ UNCHANGED <<connVars, gameState, pubLog, sendVars, storeVars, throttleVars>>

\* a frame handler that drops the published GameState when decoding fails
BlobRead_ClearsOnFailure(n) ==
  /\ evq = NoSocket
  /\ n \in pending
  /\ pending' = pending \ {n}
  /\ LET decoded == Decoded[frames[n].buf] IN
     IF decoded.ok
     THEN /\ gameState' = SetState(gameState, decoded.v)
          /\ pubLog' = SetState(pubLog, Append(pubLog, n))
          /\ UNCHANGED error
     ELSE /\ error' = SetState(error, "Failed to decode game state")
          /\ gameState' = SetState(gameState, NoGameState)
          /\ UNCHANGED pubLog
  /\ UNCHANGED <<urlOk, nanKept, phase, mountSocket, readyState, opened, closeReq, evq,
                 wsRef, isConnecting, isConnected, frames>>
  /\ UNCHANGED <<sendVars, storeVars, throttleVars>>

\* a frame handler that merges the decoded planets into the published ones
BlobRead_Merges(n) ==
  /\ evq = NoSocket
  /\ n \in pending
  /\ pending' = pending \ {n}
  /\ LET decoded == Decoded[frames[n].buf] IN
     IF decoded.ok
     THEN /\ gameState' =
               SetState(gameState,
                        IF gameState = NoGameState
                        THEN decoded.v
                        ELSE [decoded.v EXCEPT
                                !.planets = gameState.planets \o decoded.v.planets])
          /\ pubLog' = SetState(pubLog, Append(pubLog, n))
          /\ UNCHANGED error
     ELSE /\ error' = SetState(error, "Failed to decode game state")
          /\ UNCHANGED <<gameState, pubLog>>
  /\ UNCHANGED <<urlOk, nanKept, phase, mountSocket, readyState, opened, closeReq, evq,
                 wsRef, isConnecting, isConnected, frames>>
  /\ UNCHANGED <<sendVars, storeVars, throttleVars>>

\* a read whose successful decode also clears the error string
BlobRead_ClearsError(n) ==
  /\ evq = NoSocket
  /\ n \in pending
  /\ pending' = pending \ {n}
  /\ LET decoded == Decoded[frames[n].buf] IN
     IF decoded.ok
     THEN /\ gameState' = SetState(gameState, decoded.v)
          /\ pubLog' = SetState(pubLog, Append(pubLog, n))
          /\ error' = SetState(error, NoError)
     ELSE /\ error' = SetState(error, "Failed to decode game state")
          /\ UNCHANGED <<gameState, pubLog>>
  /\ UNCHANGED <<urlOk, nanKept, phase, mountSocket, readyState, opened, closeReq, evq,
                 wsRef, isConnecting, isConnected, frames>>
  /\ UNCHANGED <<sendVars, storeVars, throttleVars>>

\* event.data.arrayBuffer().then(...): the read of frame number n settles
BlobRead(n) ==
  /\ evq = NoSocket
  /\ n \in pending
  /\ pending' = pending \ {n}
  /\ LET decoded == Decoded[frames[n].buf] IN
     IF decoded.ok
     THEN /\ gameState' = SetState(gameState, decoded.v)
          /\ pubLog' = SetState(pubLog, Append(pubLog, n))
          /\ UNCHANGED error
     ELSE /\ error' = SetState(error, "Failed to decode game state")
          /\ UNCHANGED <<gameState, pubLog>>
  /\ UNCHANGED <<urlOk, nanKept, phase, mountSocket, readyState, opened, closeReq, evq,
                 wsRef, isConnecting, isConnected, frames>>
  /\ UNCHANGED <<sendVars, storeVars, throttleVars>>

\* reconnect() within the socket bound of SpecFrames
ReconnectFrames ==
  /\ Reconnect
  /\ \A s \in Sockets : s > FrameSockets => readyState'[s] = "NONE"

\* Connections end by a clean close here: a failed one differs from it in the
\* error string alone, which no frame handler reads.
NextFrames ==
  \/ Mount
  \/ ReconnectFrames
  \/ Teardown
  \/ \E s \in Sockets : TransportOpen(s)
  \/ \E s \in Sockets : TransportClose(s)
  \/ \E s \in Sockets : TextMessage(s)
  \/ \E s \in Sockets, buf \in Buffers : BinaryMessage(s, buf)
  \/ \E n \in pending : BlobRead(n)

SpecFrames == Init /\ [][NextFrames]_vars

(* ---------------------------- codec on a frame ------------------------ *)
\* the first binary frame of the session arrives, with any of the codec's
\* buffers as its payload
FirstFrame(s, buf) ==
  /\ evq = NoSocket
  /\ readyState[s] = "OPEN"
  /\ frames = <<>>
  /\ frames' = <<[sock |-> s, buf |-> buf]>>
  /\ pending' = {1}
  /\ UNCHANGED <<connVars, gameState, pubLog, sendVars, storeVars, throttleVars>>

\* a caller hands the published initial_player_location to sendPosition
EchoLocation ==
  /\ gameState # NoGameState
  /\ SendPositionCall(<<gameState.initial_player_location.x,
                        gameState.initial_player_location.y,
                        gameState.initial_player_location.z>>)

InitCodec == InitBase /\ urlOk = TRUE /\ nanKept \in BOOLEAN /\ variant = "context"

NextCodec ==
  \/ Mount
  \/ \E s \in Sockets : TransportOpen(s)
  \/ \E s \in Sockets, buf \in CodecBuffers : FirstFrame(s, buf)
  \/ \E n \in pending : BlobRead(n)
  \/ EchoLocation

SpecCodec == InitCodec /\ [][NextCodec]_vars

(* ------------------------------ throttle ------------------------------ *)
\* the ship flies in the plane y = 0; the z axis, its forward axis when it has
\* not turned, is one step longer so that a straight run passes the threshold
Depth == MaxCoord + 1

Grid == (0..MaxCoord) \X {0} \X (0..Depth)

\* square of the Euclidean distance of two grid points
Dist2(a, b) ==
  (a[1] - b[1]) * (a[1] - b[1]) + (a[2] - b[2]) * (a[2] - b[2])
  + (a[3] - b[3]) * (a[3] - b[3])

\* where the frame's movement can leave the ship
Movement ==
  IF variant = "store"
  THEN IF keys.w \/ keys.s THEN Grid ELSE {pos}
  ELSE {<<pos[1], pos[2], z>> : z \in
          IF keys.w /\ ~keys.s THEN 0..pos[3]
          ELSE IF keys.s /\ ~keys.w THEN pos[3]..Depth
          ELSE {pos[3]}}

\* the throttle with an inclusive time test: sends at exactly the interval
shouldSend_AtInterval(isMoving, currentPos, lastPos, now, lastTime) ==
  /\ isMoving
  /\ Dist2(currentPos, lastPos) > Threshold * Threshold
  /\ now - lastTime >= MinInterval

\* the throttle's decision of one frame: distanceMoved > threshold (both
\* sides squared) and now - lastSentTime > 100, when a movement key is down
shouldSend(isMoving, currentPos, lastPos, now, lastTime) ==
  /\ isMoving
  /\ Dist2(currentPos, lastPos) > Threshold * Threshold
  /\ now - lastTime > MinInterval

\* keydown / keyup of the w or s key
KeyEvent(k, down) ==
  /\ phase = "mounted"
  /\ evq = NoSocket
  /\ keys[k] # down
  /\ keys' = [keys EXCEPT ![k] = down]
  /\ UNCHANGED <<connVars, frameVars, sendVars, storeVars>>
  /\ UNCHANGED <<variant, pos, clock, lastSentTime, lastSentPosition, invoked, lastCall>>

\* a useFrame callback that records the time of a send but not its position
Tick_TimeOnly(dt, p) ==
  /\ phase = "mounted"
  /\ evq = NoSocket
  /\ clock + dt <= ClockStart + Quantum * MaxQuanta
  /\ clock' = clock + dt
  /\ p \in Movement
  /\ pos' = p
  /\ IF shouldSend(keys.w \/ keys.s, p, lastSentPosition, clock + dt, lastSentTime)
     THEN /\ LET log == IF variant = "store"
                        THEN storeSendPosition(store_wsRef, readyState, sent,
                                               Cent(p[1]), Cent(p[2]), Cent(p[3]))
                        ELSE sendPosition(wsRef, readyState, sent,
                                          Cent(p[1]), Cent(p[2]), Cent(p[3]))
             IN /\ Len(log) <= MaxSends
                /\ sent' = log
                /\ sendResult' = IF log = sent THEN "dropped" ELSE "written"
          /\ lastSentPosition' = lastSentPosition
          /\ lastSentTime' = clock + dt
          /\ invoked' = TRUE
          /\ lastCall' = [t |-> clock + dt, p |-> p]
     ELSE /\ UNCHANGED <<sendVars, lastSentPosition, lastSentTime>>
          /\ invoked' = FALSE
          /\ UNCHANGED lastCall
  /\ UNCHANGED <<connVars, frameVars, storeVars, variant, keys>>

\* a useFrame callback that records the position of a send but not its time
Tick_PositionOnly(dt, p) ==
  /\ phase = "mounted"
  /\ evq = NoSocket
  /\ clock + dt <= ClockStart + Quantum * MaxQuanta
  /\ clock' = clock + dt
  /\ p \in Movement
  /\ pos' = p
  /\ IF shouldSend(keys.w \/ keys.s, p, lastSentPosition, clock + dt, lastSentTime)
     THEN /\ LET log == IF variant = "store"
                        THEN storeSendPosition(store_wsRef, readyState, sent,
                                               Cent(p[1]), Cent(p[2]), Cent(p[3]))
                        ELSE sendPosition(wsRef, readyState, sent,
                                          Cent(p[1]), Cent(p[2]), Cent(p[3]))
             IN /\ Len(log) <= MaxSends
                /\ sent' = log
                /\ sendResult' = IF log = sent THEN "dropped" ELSE "written"
          /\ lastSentPosition' = p
          /\ lastSentTime' = lastSentTime
          /\ invoked' = TRUE
          /\ lastCall' = [t |-> clock + dt, p |-> p]
     ELSE /\ UNCHANGED <<sendVars, lastSentPosition, lastSentTime>>
          /\ invoked' = FALSE
          /\ UNCHANGED lastCall
  /\ UNCHANGED <<connVars, frameVars, storeVars, variant, keys>>

\* one useFrame callback of the Character, dt milliseconds after the previous
\* one, the ship moved to p
Tick(dt, p) ==
  /\ phase = "mounted"
  /\ evq = NoSocket
  /\ clock + dt <= ClockStart + Quantum * MaxQuanta
  /\ clock' = clock + dt
  /\ p \in Movement
  /\ pos' = p
  /\ IF shouldSend(keys.w \/ keys.s, p, lastSentPosition, clock + dt, lastSentTime)
     THEN /\ LET log == IF variant = "store"
                        THEN storeSendPosition(store_wsRef, readyState, sent,
                                               Cent(p[1]), Cent(p[2]), Cent(p[3]))
                        ELSE sendPosition(wsRef, readyState, sent,
                                          Cent(p[1]), Cent(p[2]), Cent(p[3]))
             IN /\ Len(log) <= MaxSends
                /\ sent' = log
                /\ sendResult' = IF log = sent THEN "dropped" ELSE "written"
          /\ lastSentPosition' = p
          /\ lastSentTime' = clock + dt
          /\ invoked' = TRUE
          /\ lastCall' = [t |-> clock + dt, p |-> p]
     ELSE /\ UNCHANGED <<sendVars, lastSentPosition, lastSentTime>>
          /\ invoked' = FALSE
          /\ UNCHANGED lastCall
  /\ UNCHANGED <<connVars, frameVars, storeVars, variant, keys>>

InitThrottle ==
  InitBase /\ urlOk = TRUE /\ nanKept = FALSE /\ variant \in {"context", "store"}

NextThrottle ==
  \/ Mount
  \/ \E s \in Sockets : TransportOpen(s)
  \/ \E s \in Sockets : TransportError(s)
  \/ DispatchClose
  \/ \E s \in Sockets : TransportClose(s)
  \/ \E k \in {"w", "s"}, down \in BOOLEAN : KeyEvent(k, down)
  \/ \E q \in 1..3, p \in Grid : Tick(q * Quantum, p)

SpecThrottle == InitThrottle /\ [][NextThrottle]_vars

(* ------------------------------- claims ------------------------------- *)
\* sockets the manager has created
Created(rs) == {s \in Sockets : rs[s] # "NONE"}

\* sockets that are CONNECTING or OPEN
LiveSockets == {s \in Sockets : Live(readyState, s)}

\* C1: in every reachable state at most one socket created by the manager is
\* live (CONNECTING or OPEN).
C1_AtMostOneLiveSocket == Cardinality(LiveSockets) <= 1

\* socket s is no longer the manager's handle because reconnect() or the
\* teardown closed or dropped it
Superseded(s) ==
  /\ readyState[s] # "NONE"
  /\ s # wsRef
  /\ closeReq[s] \/ phase = "unmounted"

\* a step that runs the open, error or close callback of socket s
CallbackOf(s) ==
  \/ TransportOpen(s)
  \/ TransportError(s)
  \/ TransportClose(s)
  \/ evq = s /\ DispatchClose

\* C2: a callback of a superseded socket is a no-op: it leaves the transport
\* handle, the connecting guard, the connected flag and the error string
\* unchanged.
C2_SupersededCallbackIsNoOp ==
  [][\A s \in Sockets :
       (Superseded(s) /\ CallbackOf(s))
         => UNCHANGED <<wsRef, isConnecting, isConnected, error>>]_vars

\* every socket but the most recent one has had close() requested or is closed
NoLeak ==
  \A s \in Created(readyState) :
    (\E t \in Created(readyState) : t > s)
      => closeReq[s] \/ readyState[s] = "CLOSED"

\* C3: after a reconnect() call, whatever calls and transport events came
\* before it, every socket but the most recent one has had close() requested
\* or has closed, and no two sockets are live.
C3_ReconnectLeavesNoLeak ==
  [][Reconnect => (NoLeak' /\ Cardinality(LiveSockets') <= 1)]_vars

\* a step in which connect() is invoked, directly or by reconnect() after it
\* closed the current handle, while a socket remains CONNECTING or OPEN
ConnectWhileLive ==
  \/ ConnectCall /\ LiveSockets # {}
  \/ Reconnect /\ LiveSockets \ {wsRef} # {}

\* C4: connect() invoked while an attempt is still connecting or a connection
\* is open is a no-op: it creates no socket and leaves the guard unchanged.
C4_ConnectWhileLiveIsNoOp ==
  [][ConnectWhileLive
       => (Created(readyState') = Created(readyState)
           /\ (ConnectCall => UNCHANGED <<wsRef, isConnecting>>))]_vars

\* C5: the send log grows only by a sendPosition call made while the current
\* handle exists and is OPEN, by exactly that one message on that socket; a
\* call in any other state writes nothing, then or later.
C5_SendOnlyWhenOpen ==
  [][sent' # sent
       => (/\ wsRef # NoSocket
           /\ readyState[wsRef] = "OPEN"
           /\ Len(sent') = Len(sent) + 1
           /\ SubSeq(sent', 1, Len(sent)) = sent
           /\ sent'[Len(sent')][1] = wsRef
           /\ Len(sent'[Len(sent')][2]) = 12
           /\ sendResult' = "written"
           /\ \E p \in Samples :
                sent'[Len(sent')][2] = encodePosition(p[1], p[2], p[3]))]_vars

\* a sample was written while open and a later one was dropped
C5_Witness == sendResult = "dropped" /\ Len(sent) = 1

\* C6: a frame whose throttle decided to send but whose sample was not
\* transmitted leaves the last-sent position and timestamp unchanged.
C6_UntransmittedKeepsBookkeeping ==
  [][(clock' # clock /\ invoked' /\ sendResult' = "dropped")
       => (lastSentPosition' = lastSentPosition /\ lastSentTime' = lastSentTime)]_vars

\* C7: a frame calls sendPosition if and only if a movement key is down, the
\* distance from the last-sent position exceeds the threshold and more than
\* the minimum interval has passed since the last send.
C7_ThrottleDecision ==
  [][clock' # clock
       => (invoked' <=> (/\ keys.w \/ keys.s
                         /\ Dist2(pos', lastSentPosition) > Threshold * Threshold
                         /\ clock' - lastSentTime > MinInterval))]_vars

\* a frame suppressed by time alone, after an earlier send: moved far enough,
\* a key down, but no more than the minimum interval since the last send
C7_Witness ==
  /\ ~invoked
  /\ keys.w \/ keys.s
  /\ lastSentTime > 0
  /\ clock > lastSentTime
  /\ clock - lastSentTime <= MinInterval
  /\ Dist2(pos, lastSentPosition) > Threshold * Threshold

\* C8: while the hook is mounted, a frame that fails to decode leaves the
\* published GameState as it was, publishes a non-null error string and leaves
\* the connection (handle, guard, connected flag, socket states) untouched.
C8_DecodeFailureKeepsState ==
  [][\A n \in pending :
       (phase = "mounted" /\ ~Decoded[frames[n].buf].ok /\ BlobRead(n))
         => (/\ gameState' = gameState
             /\ error' # NoError
             /\ UNCHANGED <<wsRef, isConnecting, isConnected, readyState>>)]_vars

\* a decode failure was published over an earlier GameState on an open connection
C8_Witness ==
  /\ error = "Failed to decode game state"
  /\ gameState # NoGameState
  /\ isConnected
  /\ wsRef # NoSocket
  /\ readyState[wsRef] = "OPEN"

\* C9: while the hook is mounted, a frame that decodes replaces the published
\* GameState in that one step by exactly the decoded value.
C9_DecodeSuccessReplaces ==
  [][\A n \in pending :
       (phase = "mounted" /\ Decoded[frames[n].buf].ok /\ BlobRead(n))
         => gameState' = Decoded[frames[n].buf].v]_vars

\* a one-planet GameState was published and then replaced by a planetless one
C9_Witness ==
  /\ Len(pubLog) = 2
  /\ frames[pubLog[1]].buf = FramePlanet
  /\ frames[pubLog[2]].buf = FrameEmpty
  /\ gameState.planets = <<>>

\* C10: the frames of one socket are published in their arrival order.
C10_PublishedInArrivalOrder ==
  \A i, j \in 1..Len(pubLog) :
    (i < j /\ frames[pubLog[i]].sock = frames[pubLog[j]].sock)
      => pubLog[i] < pubLog[j]

\* C11: in every state a reader can observe (hook mounted, no event handler
\* half-way through its task) the connected flag is true exactly when the
\* manager's handle exists and is OPEN.
C11_ConnectedIffOpen ==
  (phase = "mounted" /\ evq = NoSocket)
    => (isConnected <=> (wsRef # NoSocket /\ readyState[wsRef] = "OPEN"))

\* C12: what the manager publishes is what the UI reads from the store: a step
\* in which a frame decodes leaves the store's gameState equal to the decoded
\* value, and the open event of a socket leaves the store's connected flag true.
C12_StoreMirrorsManager ==
  [][/\ \A n \in pending :
          (phase = "mounted" /\ Decoded[frames[n].buf].ok /\ BlobRead(n))
            => store_gameState' = Decoded[frames[n].buf].v
     /\ \A s \in Sockets :
          (phase = "mounted" /\ TransportOpen(s)) => store_isConnected' = TRUE]_vars

\* C13: a frame on which the throttle calls sendPosition while the manager's
\* handle is OPEN writes exactly one message, that frame's position, to that
\* handle.
C13_PassedSampleIsWritten ==
  [][(clock' # clock /\ invoked' /\ wsRef # NoSocket /\ readyState[wsRef] = "OPEN")
       => sent' = Append(sent, <<wsRef, encodePosition(Cent(pos'[1]), Cent(pos'[2]),
                                                       Cent(pos'[3]))>>)]_vars

\* C14: the error event of the current socket, CONNECTING or OPEN, records an
\* error string, clears the connected flag and releases the connecting guard,
\* and leaves the manager with no live handle, so that a connect() made next
\* is not skipped: with a valid url it creates a socket and starts an attempt.
C14_ErrorReleasesGuard ==
  [][\A s \in Sockets :
       (s = wsRef /\ Live(readyState, s) /\ TransportError(s))
         => (/\ error' = "WebSocket connection error"
             /\ ~isConnected'
             /\ ~isConnecting'
             /\ wsRef' = NoSocket \/ ~Live(readyState', wsRef')
             /\ (urlOk /\ \E t \in Sockets : readyState'[t] = "NONE")
                  => LET r == connect(readyState', wsRef', isConnecting', error') IN
                     /\ r.ret # NoSocket
                     /\ readyState'[r.ret] = "NONE"
                     /\ r.rs[r.ret] = "CONNECTING"
                     /\ r.ws = r.ret
                     /\ r.ic)]_vars

\* the error event of the current socket, which had opened, has just run
C14_Witness ==
  /\ evq # NoSocket
  /\ evq = wsRef
  /\ opened[evq]
  /\ readyState[evq] = "CLOSED"
  /\ error = "WebSocket connection error"
  /\ \E t \in Sockets : readyState[t] = "NONE"

\* the close event of socket s runs, alone or after the socket's error event
CloseEventOf(s) == TransportClose(s) \/ (evq = s /\ DispatchClose)

\* C15: the close event of the current socket leaves the connected flag false,
\* the handle cleared and the connecting guard released.
C15_CloseClearsHandle ==
  [][\A s \in Sockets :
       (s = wsRef /\ CloseEventOf(s))
         => (~isConnected' /\ wsRef' = NoSocket /\ ~isConnecting')]_vars

\* the server closed the open current socket: the manager is idle, no error
C15_Witness ==
  /\ phase = "mounted"
  /\ wsRef = NoSocket
  /\ ~isConnected
  /\ ~isConnecting
  /\ error = NoError
  /\ \E s \in Sockets : readyState[s] = "CLOSED" /\ opened[s] /\ ~closeReq[s]

\* C16: the open event of the current attempt leaves the handle on that
\* socket, now OPEN, the connected flag true, the error string cleared and the
\* connecting guard cleared.
C16_OpenEntersOpen ==
  [][\A s \in Sockets :
       (s = wsRef /\ TransportOpen(s))
         => (/\ wsRef' = s
             /\ readyState'[s] = "OPEN"
             /\ isConnected'
             /\ error' = NoError
             /\ ~isConnecting')]_vars

\* an earlier attempt failed before opening, which set the error string; the
\* current one has opened since and the error string is clear
C16_Witness ==
  /\ wsRef # NoSocket
  /\ readyState[wsRef] = "OPEN"
  /\ isConnected
  /\ error = NoError
  /\ \E t \in Sockets : readyState[t] = "CLOSED" /\ ~opened[t] /\ ~closeReq[t]

\* C17: a teardown issued while the current socket is CONNECTING or OPEN
\* requests its close and leaves the handle cleared and the guard released,
\* with no socket of the manager live afterwards.
C17_TeardownClosesTransport ==
  [][(Teardown /\ wsRef # NoSocket /\ Live(readyState, wsRef))
       => (/\ closeReq'[wsRef]
           /\ wsRef' = NoSocket
           /\ ~isConnecting'
           /\ \A s \in Sockets : ~Live(readyState', s))]_vars

\* C18: handling an inbound text frame changes neither the GameState, the
\* connected flag, the error string, the handle nor the connecting guard.
C18_TextFrameIsInert ==
  [][\A s \in Sockets :
       TextMessage(s)
         => UNCHANGED <<gameState, isConnected, error, wsRef, isConnecting>>]_vars

\* a text frame can arrive on the open current socket while a GameState and an
\* error string are published, each of them a value a mutation would change
C18_Witness ==
  /\ phase = "mounted"
  /\ wsRef # NoSocket
  /\ readyState[wsRef] = "OPEN"
  /\ isConnected
  /\ gameState # NoGameState
  /\ error # NoError
  /\ ENABLED TextMessage(wsRef)

C20_InvalidNameFails ==
  \A n \in 1..Len(frames) :
    frames[n].buf = FrameBadName
      => (/\ ~decodeBincodeGameState(frames[n].buf).ok
          /\ n \notin pending => gameState = NoGameState)

\* The wire layout read by offset arithmetic, each field at its fixed place.
PositionAt(buf, o) ==
  [x |-> F32Value(SubSeq(buf, o + 1, o + 4)),
   y |-> F32Value(SubSeq(buf, o + 5, o + 8)),
   z |-> F32Value(SubSeq(buf, o + 9, o + 12))]

ColorAt(buf, o) == [r |-> buf[o + 1], g |-> buf[o + 2], b |-> buf[o + 3]]

\* the 26-byte Planet record at offset o
PlanetAt(buf, o) ==
  [size |-> F32Value(SubSeq(buf, o + 1, o + 4)),
   colors |-> <<ColorAt(buf, o + 4), ColorAt(buf, o + 7), ColorAt(buf, o + 10)>>,
   module_type |-> buf[o + 14],
   position |-> PositionAt(buf, o + 14)]

\* the declared byte length of the name of the Player record at offset o
NameLenAt(buf, o) == LittleEndian(buf, o + 4, 8)

\* the Player record at offset o; its name is ASCII, one code point per byte
PlayerAt(buf, o) ==
  [id |-> LittleEndian(buf, o, 4),
   name |-> SubSeq(buf, o + 13, o + 12 + NameLenAt(buf, o)),
   level |-> LittleEndian(buf, o + 12 + NameLenAt(buf, o), 4),
   position |-> PositionAt(buf, o + 16 + NameLenAt(buf, o))]

\* the offset k Player records after offset o
RECURSIVE PlayerOffset(_, _, _)
PlayerOffset(buf, o, k) ==
  IF k = 0 THEN o ELSE PlayerOffset(buf, o + 28 + NameLenAt(buf, o), k - 1)

\* offset of player_count
PlayerCountAt(buf) == 8 + 26 * LittleEndian(buf, 0, 8)

\* the GameState the layout of the wire format assigns to a well-formed buffer
Layout(buf) ==
  [planets |-> [i \in 1..LittleEndian(buf, 0, 8) |-> PlanetAt(buf, 8 + 26 * (i - 1))],
   players |-> [i \in 1..LittleEndian(buf, PlayerCountAt(buf), 8) |->
                  PlayerAt(buf, PlayerOffset(buf, PlayerCountAt(buf) + 8, i - 1))],
   initial_player_location |->
     PositionAt(buf, PlayerOffset(buf, PlayerCountAt(buf) + 8,
                                  LittleEndian(buf, PlayerCountAt(buf), 8)))]

\* well-formed frames whose names are valid UTF-8 (ASCII)
TextFrames == WellFormed \ {FrameBadName}

\* C21: decoding a well-formed buffer yields planet_count planets and
\* player_count players in wire order, every field the value at its offset in
\* the layout planet_count, Planets, player_count, Players, Position; that
\* GameState is what the handler publishes.
C21_DecodeFollowsLayout ==
  \A n \in 1..Len(frames) :
    frames[n].buf \in TextFrames
      => (/\ decodeBincodeGameState(frames[n].buf).ok
          /\ decodeBincodeGameState(frames[n].buf).v = Layout(frames[n].buf)
          /\ n \notin pending => gameState = Layout(frames[n].buf))

\* the end-to-end scenario: one planet of size 10.0, colors (0,0,255) (0,255,0)
\* (128,128,128), module_type 2, at (1,2,3); no players; location (5,5,5)
C21_Witness ==
  /\ Len(frames) = 1
  /\ frames[1].buf = FramePlanet
  /\ pending = {}
  /\ gameState # NoGameState
  /\ Len(gameState.planets) = 1
  /\ gameState.planets[1].size = F32Value(<<0, 0, 32, 65>>)
  /\ gameState.planets[1].colors =
       <<[r |-> 0, g |-> 0, b |-> 255], [r |-> 0, g |-> 255, b |-> 0],
         [r |-> 128, g |-> 128, b |-> 128]>>
  /\ gameState.planets[1].module_type = 2
  /\ gameState.planets[1].position = PositionAt(<<0, 0, 128, 63, 0, 0, 0, 64, 0, 0, 64, 64>>, 0)
  /\ gameState.players = <<>>
  /\ gameState.initial_player_location = PositionAt(FiveFiveFive, 0)


\* the bytes of the float nearest to k/100, least significant byte first
Float32LE(k) == CentF32[k]

\* C22: every message handed to a transport is exactly 12 bytes: the
\* little-endian 32-bit floats of x at offset 0, y at offset 4 and z at offset
\* 8; for the sample (1.5, -2.25, 0.0) these are 00 00 C0 3F, 00 00 10 C0,
\* 00 00 00 00, and no message of any other shape is ever sent.
C22_MessageIsTwelveBytes ==
  \A i \in 1..Len(sent) :
    /\ Len(sent[i][2]) = 12
    /\ \E p \in Samples :
         /\ SubSeq(sent[i][2], 1, 4) = Float32LE(p[1].n)
         /\ SubSeq(sent[i][2], 5, 8) = Float32LE(p[2].n)
         /\ SubSeq(sent[i][2], 9, 12) = Float32LE(p[3].n)

\* the sample (1.5, -2.25, 0.0) was written to an open transport
C22_Witness ==
  /\ sendResult = "written"
  /\ Len(sent) >= 1
  /\ sent[Len(sent)][2] = <<0, 0, 192, 63, 0, 0, 16, 192, 0, 0, 0, 0>>


\* the 12 bytes of the trailing Position of a buffer
LocationBytes(buf) == SubSeq(buf, Len(buf) - 11, Len(buf))

\* C23: a Position decoded from 12 bytes and encoded again by sendPosition
\* gives the same 12 bytes, whatever the pattern, NaN and infinity included.
C23_PositionRoundTrip ==
  \A i \in 1..Len(sent) :
    (Len(frames) = 1 /\ frames[1].buf \in LocationFrames)
      => sent[i][2] = LocationBytes(frames[1].buf)


\* C24: once a GameState has been published, no later step changes its planets
\* or its initial_player_location; only its players are replaced.
C24_PlanetsFixedForSession ==
  [][gameState # NoGameState
       => (/\ gameState' # NoGameState
           /\ gameState'.planets = gameState.planets
           /\ gameState'.initial_player_location = gameState.initial_player_location)]_vars


\* The objects of a decoded GameState, each named by its property path from
\* the GameState object (the empty path).
ObjectsOf(gs) ==
  {<<>>, <<"planets">>, <<"players">>, <<"initial_player_location">>}
  \cup {<<"planets", i>> : i \in 1..Len(gs.planets)}
  \cup {<<"planets", i, "colors">> : i \in 1..Len(gs.planets)}
  \cup {<<"planets", i, "colors", k>> : i \in 1..Len(gs.planets), k \in 1..3}
  \cup {<<"planets", i, "position">> : i \in 1..Len(gs.planets)}
  \cup {<<"players", j>> : j \in 1..Len(gs.players)}
  \cup {<<"players", j, "position">> : j \in 1..Len(gs.players)}

IsPrefix(p, q) == Len(p) <= Len(q) /\ SubSeq(q, 1, Len(p)) = p

\* deepFreeze(obj): obj and every object reachable through its properties
deepFreeze(gs, root) == {q \in ObjectsOf(gs) : IsPrefix(root, q)}

\* the objects decodeBincodeGameState has frozen when it returns: each color
\* (readColor), each planet deeply (readPlanet), and the planets array itself
FrozenObjects(gs) ==
  UNION {deepFreeze(gs, <<"planets", i, "colors", k>>) :
           i \in 1..Len(gs.planets), k \in 1..3}
  \cup UNION {deepFreeze(gs, <<"planets", i>>) : i \in 1..Len(gs.planets)}
  \cup {<<"planets">>}

\* an assignment through a reference to the object at path p takes effect
Mutable(gs, p) == p \in ObjectsOf(gs) \ FrozenObjects(gs)

\* C25: in every published GameState the planets sequence, every planet with
\* its colors and its position, and initial_player_location are frozen; the
\* players collection is the only mutable part.
C25_GeographyIsFrozen ==
  gameState # NoGameState
    => /\ \A p \in ObjectsOf(gameState) :
            (p # <<>> /\ p[1] \in {"planets", "initial_player_location"})
              => ~Mutable(gameState, p)
       /\ Mutable(gameState, <<"players">>)


\* C27: when the WebSocket constructor throws inside connect(), the call
\* records the failure in the error string, releases the connecting guard,
\* returns null (the effect captures no socket), creates no transport and
\* leaves the transport handle as it was.
C27_ConstructorThrowIsRecorded ==
  [][(~urlOk /\ (Mount \/ ConnectCall \/ Reconnect))
       => (/\ error' = "Failed to construct 'WebSocket'"
           /\ isConnecting' = FALSE
           /\ wsRef' = wsRef
           /\ readyState' = readyState
           /\ (Mount => mountSocket' = NoSocket))]_vars

\* the mount-time connect() threw and the hook stayed mounted
C27_Witness ==
  /\ ~urlOk
  /\ phase = "mounted"
  /\ error = "Failed to construct 'WebSocket'"
  /\ ~isConnecting
  /\ mountSocket = NoSocket


\* socket s is no longer the connection: it was closed, replaced as the
\* current handle, or the hook was torn down
Abandoned(s) ==
  \/ readyState[s] \in {"CLOSING", "CLOSED"}
  \/ wsRef # s
  \/ phase = "unmounted"

\* C28: when the payload read of a binary frame completes after the frame's
\* socket was closed, superseded by reconnect() or torn down, the completion
\* changes neither the published GameState nor the error string.
C28_LateReadHasNoEffect ==
  [][\A n \in pending :
       (pending' = pending \ {n} /\ Abandoned(frames[n].sock))
         => UNCHANGED <<gameState, error>>]_vars


\* C29: every tick either sets the last-sent position and the last-sent
\* timestamp together, to the position and time of the tick whose throttle
\* called sendPosition, or leaves both as they were.
C29_BookkeepingMovesTogether ==
  [][clock' # clock
       => \/ (invoked' /\ lastSentPosition' = pos' /\ lastSentTime' = clock')
          \/ (~invoked' /\ lastSentPosition' = lastSentPosition
                /\ lastSentTime' = lastSentTime)]_vars

\* after a tick that sent, a later tick moved the ship and left both records
C29_Witness ==
  /\ ~invoked
  /\ lastSentTime > ClockStart
  /\ lastSentPosition # <<0, 0, 0>>
  /\ clock > lastSentTime
  /\ pos # lastSentPosition


\* C30: a teardown issued when reconnect() has replaced the socket created at
\* mount by a newer one that is OPEN requests the close of that newer socket,
\* and leaves no socket OPEN.
C30_TeardownClosesCurrent ==
  [][(Teardown /\ wsRef # NoSocket /\ wsRef # mountSocket
        /\ readyState[wsRef] = "OPEN")
       => (/\ closeReq'[wsRef]
           /\ \A s \in Sockets : readyState'[s] # "OPEN")]_vars


\* socket t was closed by the transport (an error or a close the manager did
\* not request) and the socket s that is now current was created after it
RecoveredOn(s) ==
  /\ wsRef = s
  /\ s # mountSocket
  /\ readyState[s] = "OPEN"
  /\ isConnected
  /\ \E t \in Sockets : t < s /\ readyState[t] = "CLOSED" /\ ~closeReq[t]

\* C26: after a transport error or close, once the attempt started by
\* reconnect() has opened, the manager stays connected with that socket as its
\* handle (so that sendPosition writes to it) for as long as that socket has
\* no error or close, reconnect() is not called again and the hook stays
\* mounted.
C26_RecoveryStays ==
  [][\A s \in Sockets :
       (/\ RecoveredOn(s)
        /\ phase = "mounted" /\ phase' = "mounted"
        /\ readyState'[s] = "OPEN")
         => (isConnected' /\ wsRef' = s)]_vars


\* C31: the throttle calls sendPosition only on a tick with a movement key
\* down, and each call after the first comes more than the minimum interval
\* after the call before it, at a position farther than the threshold from the
\* position of the call before it.
C31_CallsAreSpaced ==
  [][(clock' # clock /\ invoked')
       => (/\ keys.w \/ keys.s
           /\ lastCall # NoCall
                => (/\ clock' - lastCall.t > MinInterval
                    /\ Dist2(pos', lastCall.p) > Threshold * Threshold))]_vars

\* the throttle has called sendPosition twice, both calls written to the socket
C31_Witness ==
  /\ invoked
  /\ Len(sent) = 2
  /\ lastCall.t = clock
  /\ sent[1][2] # sent[2][2]


\* C32: whenever the connecting guard is set, the handle is not null and its
\* socket is CONNECTING.
C32_GuardMeansConnecting ==
  isConnecting => (wsRef # NoSocket /\ readyState[wsRef] = "CONNECTING")


\* the guard is set for the attempt started by reconnect() while the socket it
\* replaced is still closing
C32_Witness ==
  /\ isConnecting
  /\ wsRef # NoSocket
  /\ wsRef # mountSocket
  /\ readyState[wsRef] = "CONNECTING"
  /\ mountSocket # NoSocket
  /\ readyState[mountSocket] = "CLOSING"


\* C33: the completion of a read whose payload decodes leaves the error string
\* as it was, and a recorded error is cleared by no step but the open event of
\* a socket.
C33_SuccessKeepsError ==
  [][/\ \A n \in pending :
          (pending' = pending \ {n} /\ Decoded[frames[n].buf].ok) => error' = error
     /\ (error # NoError /\ error' = NoError)
          => \E s \in Sockets : readyState[s] = "CONNECTING" /\ readyState'[s] = "OPEN"]_vars

\* one frame failed to decode, the other was published, and the error of the
\* failure is still shown
C33_Witness ==
  /\ Len(frames) = 2
  /\ pending = {}
  /\ ~Decoded[frames[1].buf].ok
  /\ pubLog = <<2>>
  /\ gameState = Decoded[frames[2].buf].v
  /\ error = "Failed to decode game state"


\* the fields of the store
StoreFields ==
  <<store_gameState, store_isConnected, store_error, store_wsRef, store_connectFn>>

\* C34: the store's reconnect() called while no connect function is
\* registered returns without raising and without effect, and the store's
\* sendPosition() called while no socket is registered writes nothing and
\* returns without raising; both leave every field of the store, and the
\* connection, as they were.
C34_UnregisteredStoreIsInert ==
  [][/\ (StoreReconnectCall /\ ~store_connectFn)
          => (/\ store_reconnectResult' = "skipped"
              /\ UNCHANGED <<StoreFields, connVars, sent>>)
     /\ \A p \in Samples :
          (StoreSendPositionCall(p) /\ store_wsRef = NoSocket)
            => (/\ sendResult' = "dropped"
                /\ UNCHANGED <<StoreFields, connVars, sent>>)]_vars

\* while the hook's connection is open, the store's reconnect() was skipped
\* and nothing has been written
C34_Witness ==
  /\ store_reconnectResult = "skipped"
  /\ sendResult = "dropped"
  /\ sent = <<>>
  /\ wsRef # NoSocket
  /\ readyState[wsRef] = "OPEN"
  /\ isConnected

=============================================================================
